---- MODULE Spec2Model ----
(***************************************************************************)
(* Model of packageESM (src/src/main.ts): the worklist traversal of the    *)
(* import graph, import resolution (relative, alias, node_modules),        *)
(* destination-path computation, specifier rewriting and recursive         *)
(* directory creation.  Paths and file texts are strings; offsets are the  *)
(* 0-based offsets of the JavaScript source.                               *)
(***************************************************************************)
EXTENDS Integers, Sequences, FiniteSets, TLC

(***************************************************************************)
(* Evaluation of an argument once, before the operator is applied to it.   *)
(***************************************************************************)
Let1(a, F(_)) == CHOOSE r \in {F(x) : x \in {a}} : TRUE
Let2(a, b, F(_, _)) == CHOOSE r \in {F(x, y) : x \in {a}, y \in {b}} : TRUE
Let3(a, b, c, F(_, _, _)) ==
    CHOOSE r \in {F(x, y, z) : x \in {a}, y \in {b}, z \in {c}} : TRUE
Let4(a, b, c, d, F(_, _, _, _)) ==
    CHOOSE r \in {F(x, y, z, w) : x \in {a}, y \in {b}, z \in {c}, w \in {d}} : TRUE

Least(S) == CHOOSE x \in S : \A y \in S : x <= y
Greatest(S) == CHOOSE x \in S : \A y \in S : x >= y

(***************************************************************************)
(* JavaScript string primitives, 0-based as in the source.                 *)
(***************************************************************************)
Clamp(k, n) == IF k < 0 THEN 0 ELSE IF k > n THEN n ELSE k

Slice(s, a, b) == IF a <= b THEN SubSeq(s, a + 1, b) ELSE SubSeq(s, b + 1, a)

Substring_v(s, from, to) == Slice(s, Clamp(from, Len(s)), Clamp(to, Len(s)))

\* String.prototype.substring(from, to)
Substring(s, from, to) == Let3(s, from, to, Substring_v)

SubstringFrom_v(s, from) == SubSeq(s, Clamp(from, Len(s)) + 1, Len(s))

\* String.prototype.substring(from)
SubstringFrom(s, from) == Let2(s, from, SubstringFrom_v)

CharAt(s, k) == SubSeq(s, k + 1, k + 1)

\* the offsets at which t occurs in s
Occurrences(s, t) == {k \in 0..(Len(s) - Len(t)) : SubSeq(s, k + 1, k + Len(t)) = t}

FirstOf(hits) == IF hits = {} THEN -1 ELSE Least(hits)
LastOf(hits) == IF hits = {} THEN -1 ELSE Greatest(hits)

IndexOf_v(s, t) == Let1(Occurrences(s, t), FirstOf)

\* String.prototype.indexOf(t): first offset of t in s, or -1
IndexOf(s, t) == Let2(s, t, IndexOf_v)

IndexFrom_v(s, t, from) == Let1({k \in Occurrences(s, t) : k >= from}, FirstOf)

\* String.prototype.indexOf(t, from)
IndexFrom(s, t, from) == Let3(s, t, from, IndexFrom_v)

LastIndexOf_v(s, t) == Let1(Occurrences(s, t), LastOf)

\* String.prototype.lastIndexOf(t)
LastIndexOf(s, t) == Let2(s, t, LastIndexOf_v)

ReplaceAt(s, t, r, k) ==
    IF k = -1 THEN s
    ELSE SubSeq(s, 1, k) \o r \o SubSeq(s, k + Len(t) + 1, Len(s))

ReplaceFirst_v(s, t, r) == ReplaceAt(s, t, r, IndexOf(s, t))

\* String.prototype.replace(t, r) with a string pattern: the first occurrence only
ReplaceFirst(s, t, r) == Let3(s, t, r, ReplaceFirst_v)

RECURSIVE BackslashToSlash(_)
BackslashToSlash_v(s) ==
    IF Occurrences(s, "\\") = {} THEN s
    ELSE BackslashToSlash(ReplaceFirst(s, "\\", "/"))

\* s.replace(/\\/g, '/')
BackslashToSlash(s) == Let1(s, BackslashToSlash_v)

IsRelativeSpecifier_v(s) ==
    \/ Substring(s, 0, 2) = "./"
    \/ Substring(s, 0, 3) = "../"

\* /(^\.\/)|(^\.\.\/)/.test(s)
IsRelativeSpecifier(s) == Let1(s, IsRelativeSpecifier_v)

StripJsSuffix_v(s) ==
    IF Len(s) >= 3 /\ SubSeq(s, Len(s) - 2, Len(s)) = ".js"
    THEN SubSeq(s, 1, Len(s) - 3)
    ELSE s

\* faulty variant: the extension is left on the rewritten specifier
KeepJsSuffix(s) == s

\* s.replace(/\.js$/, '')
StripJsSuffix(s) == Let1(s, StripJsSuffix_v)

StripTrailingSeparator_v(s) ==
    IF Len(s) >= 1 /\ SubSeq(s, Len(s), Len(s)) \in {"/", "\\"}
    THEN SubSeq(s, 1, Len(s) - 1)
    ELSE s

\* s.replace(/(\/|\\)$/, '')
StripTrailingSeparator(s) == Let1(s, StripTrailingSeparator_v)

(***************************************************************************)
(* Node's posix path module, as the source uses it.                        *)
(***************************************************************************)
\* the k-th smallest member of a set of offsets
Nth(S, k) == CHOOSE p \in S : Cardinality({q \in S : q < p}) = k - 1

\* the segments of s between the slashes at the offsets in cuts
SplitAt(s, cuts) ==
    [j \in 1..(Cardinality(cuts) + 1) |->
        SubSeq(s,
               (IF j = 1 THEN 0 ELSE Nth(cuts, j - 1) + 1) + 1,
               IF j = Cardinality(cuts) + 1 THEN Len(s) ELSE Nth(cuts, j))]

SplitPath_v(s) == Let2(s, Occurrences(s, "/"), SplitAt)

\* s.split('/')
SplitPath(s) == Let1(s, SplitPath_v)

RECURSIVE JoinSegments(_)
JoinSegments_v(segs) ==
    IF Len(segs) = 0 THEN ""
    ELSE IF Len(segs) = 1 THEN segs[1]
    ELSE segs[1] \o "/" \o JoinSegments(Tail(segs))

\* segs.join('/')
JoinSegments(segs) == Let1(segs, JoinSegments_v)

\* one segment of normalizeString: "" and "." are dropped, ".." removes a segment
PushSegment(acc, seg, allowAboveRoot) ==
    IF seg = "" \/ seg = "." THEN acc
    ELSE IF seg = ".."
         THEN IF Len(acc) > 0 /\ acc[Len(acc)] # ".."
              THEN SubSeq(acc, 1, Len(acc) - 1)
              ELSE IF allowAboveRoot THEN Append(acc, "..") ELSE acc
         ELSE Append(acc, seg)

RECURSIVE NormalizeSegments(_, _, _)
NormalizeSegments_v(segs, acc, allowAboveRoot) ==
    IF Len(segs) = 0 THEN acc
    ELSE NormalizeSegments(Tail(segs), PushSegment(acc, Head(segs), allowAboveRoot),
                           allowAboveRoot)

\* normalizeString of path.normalize, over the segments
NormalizeSegments(segs, acc, allowAboveRoot) ==
    Let3(segs, acc, allowAboveRoot, NormalizeSegments_v)

IsAbsolute(p) == Substring(p, 0, 1) = "/"

NormalizedBody(p, abs) == JoinSegments(NormalizeSegments(SplitPath(p), <<>>, ~abs))

Assemble(body, abs, trailing) ==
    IF Len(body) = 0
    THEN (IF abs THEN "/" ELSE IF trailing THEN "./" ELSE ".")
    ELSE (IF abs THEN "/" ELSE "") \o body \o (IF trailing THEN "/" ELSE "")

PathNormalize_v(p) ==
    IF Len(p) = 0 THEN "."
    ELSE Let3(NormalizedBody(p, IsAbsolute(p)), IsAbsolute(p),
              SubSeq(p, Len(p), Len(p)) = "/", Assemble)

\* path.normalize
PathNormalize(p) == Let1(p, PathNormalize_v)

PathJoin_v(a, b) ==
    PathNormalize(IF Len(a) = 0 THEN b ELSE IF Len(b) = 0 THEN a ELSE a \o "/" \o b)

\* path.join(a, b): the non-empty arguments joined by "/", then normalised
PathJoin(a, b) == Let2(a, b, PathJoin_v)

\* path.join(a, b, c)
PathJoin3(a, b, c) == PathJoin(PathJoin(a, b), c)

\* the loop of path.dirname: the offsets of the slashes that end a directory part
DirnameEnds(p) ==
    {k \in 1..(Len(p) - 1) :
        /\ CharAt(p, k) = "/"
        /\ \E j \in (k + 1)..(Len(p) - 1) : CharAt(p, j) # "/"}

DirnameAt(p, hasRoot, end) ==
    IF end = -1 THEN (IF hasRoot THEN "/" ELSE ".")
    ELSE IF hasRoot /\ end = 1 THEN "//"
    ELSE SubSeq(p, 1, end)

PathDirname_v(p) ==
    IF Len(p) = 0 THEN "."
    ELSE Let3(p, IsAbsolute(p), LastOf(DirnameEnds(p)), DirnameAt)

\* path.dirname
PathDirname(p) == Let1(p, PathDirname_v)

\* the working directory of the process, used by path.relative for relative operands
Cwd == "/r"

ResolvedSegments_v(p) ==
    NormalizeSegments(SplitPath(IF IsAbsolute(p) THEN p ELSE Cwd \o "/" \o p), <<>>, FALSE)

\* the segments of path.resolve(p)
ResolvedSegments(p) == Let1(p, ResolvedSegments_v)

ShorterLen(a, b) == IF Len(a) <= Len(b) THEN Len(a) ELSE Len(b)

\* the number of leading segments two paths share
CommonPrefixLen(a, b) ==
    Greatest({k \in 0..ShorterLen(a, b) : SubSeq(a, 1, k) = SubSeq(b, 1, k)})

RelativeSegments(f, t, c) ==
    [k \in 1..(Len(f) - c) |-> ".."] \o SubSeq(t, c + 1, Len(t))

RelativeBetween(f, t) == JoinSegments(RelativeSegments(f, t, CommonPrefixLen(f, t)))

\* path.relative(from, to)
PathRelative(from, to) ==
    Let2(ResolvedSegments(from), ResolvedSegments(to), RelativeBetween)

(***************************************************************************)
(* The world of one run: the options handed to packageESM and the files    *)
(* on disk.                                                                *)
(***************************************************************************)
MaxEntryPoints == 2
MaxImports == 2

\* import statements as they appear in a source text
ImportStatement(spec) == "import '" \o spec \o "';"

RECURSIVE TextOf(_)
TextOf(specs) ==
    IF Len(specs) = 0 THEN "" ELSE ImportStatement(Head(specs)) \o TextOf(Tail(specs))

SeqsUpTo(S, n) == UNION {[1..k -> S] : k \in 0..n}

\* the specifiers a file of the source tree may import
EntrySpecifiers == {"./b", "lib", "dep"}

\* the import lists a file may turn out to hold, by its path
ImportChoices(p) ==
    CASE p = "/r/s/a.js"   -> SeqsUpTo(EntrySpecifiers, MaxImports)
      [] p = "/r/s/b.js"   -> {<<>>, <<"./u/c">>, <<"./zz">>, <<"bb">>, <<"vs/x">>}
      [] p = "/r/s/u/c.js" -> {<<"../b">>, <<"dep">>, <<"p1">>, <<"p2">>, <<"p3">>}
      [] p = "/r/x/lib.js" -> {<<"dep">>, <<"esm">>}
      [] p = "/r/node_modules/dep/e.js" -> {<<"./f">>}
      [] OTHER -> {<<>>}

\* source files whose text is fixed when first read
SourceFiles ==
    {"/r/s/a.js", "/r/s/b.js", "/r/s/u/c.js", "/r/s/unused.js", "/r/x/lib.js",
     "/r/node_modules/dep/e.js", "/r/node_modules/dep/f.js",
     "/r/node_modules/esm/m.mjs", "/r/node_modules/vs/x/v.js",
     "/r/s/u/node_modules/dep/n.js"}

\* package manifests and their texts
Manifests ==
    [p \in {"/r/node_modules/dep/package.json",
            "/r/s/u/node_modules/dep/package.json",
            "/r/node_modules/esm/package.json",
            "/r/node_modules/vs/x/package.json",
            "/r/node_modules/p2/package.json",
            "/r/node_modules/p3/package.json"} |->
        CASE p = "/r/node_modules/dep/package.json"     -> "{\"module\":\"e.js\"}"
          [] p = "/r/s/u/node_modules/dep/package.json" -> "{\"module\":\"n.js\"}"
          [] p = "/r/node_modules/esm/package.json"     -> "{\"module\":\"m.mjs\"}"
          [] p = "/r/node_modules/vs/x/package.json"    -> "{\"module\":\"v.js\"}"
          [] p = "/r/node_modules/p2/package.json"      -> "{\"main\":\"e.js\"}"
          [] p = "/r/node_modules/p3/package.json"      -> "{\"module\":\"gone.js\"}"]

RECURSIVE Ancestors(_)
Ancestors(p) ==
    LET d == PathDirname(p)
    IN  IF d = p THEN {p} ELSE {d} \cup Ancestors(d)

\* the directories present before the run
InitialDirs ==
    UNION {Ancestors(p) : p \in SourceFiles \cup DOMAIN Manifests}
        \cup {"/r/node_modules/p1"}

EntryNames == {"a.js", "b.js"}

\* the alias table, the skip list and the simplification mapping are configured
\* together: a bare configuration, and one in which a skipped specifier and a
\* relative specifier also have alias entries
Profiles ==
    { [resolveAlias |-> <<>>,
       resolveSkip |-> <<>>,
       destinationFolderSimplification |-> <<>>],
      [resolveAlias |-> [m \in {"lib", "bb", "./b", "vs/x"} |->
                            IF m = "bb" THEN "/r/s/b.js" ELSE "/r/x/lib.js"],
       resolveSkip |-> <<"vs">>,
       destinationFolderSimplification |->
            << [key |-> "node_modules/dep", value |-> "dep"] >>] }

OptionsSpace ==
    { [ repoRoot |-> root,
        esmSource |-> "s",
        esmDestination |-> "d",
        entryPoints |-> entries,
        resolveAlias |-> profile.resolveAlias,
        resolveSkip |-> profile.resolveSkip,
        destinationFolderSimplification |-> profile.destinationFolderSimplification ] :
      root \in {"/r", "/r/"},
      entries \in SeqsUpTo(EntryNames, MaxEntryPoints) \ {<<>>},
      profile \in Profiles }

(***************************************************************************)
(* State of one invocation of _packageESM.                                 *)
(***************************************************************************)
VARIABLES
    options,        \* the IOptions record (repoRoot is normalised by the run)
    pc,             \* "start", "loop", "imports", "done" or "failed"
    in_queue,       \* paths ever enqueued
    queue,          \* FIFO of paths waiting to be processed
    seenDir,        \* directories createDirectoryRecursive has handled
    filePath,       \* the file being processed
    fileContents,   \* its text buffer
    info,           \* importedFiles of the scanner, for the text as read
    i,              \* index (0-based) of the next import reference to process
    disk,           \* file path -> text, for the files whose text is fixed
    lazy,           \* files present on disk whose text is fixed when first read
    dirs,           \* directories present on disk
    error,          \* the error thrown to the caller, "" when none
    readLog,        \* history: files read, in order
    writeLog,       \* history: writeFileSync calls, in order
    mkdirLog,       \* history: mkdirSync calls, in order
    existsLog,      \* history: existsSync calls, in order
    importLog,      \* history: import references handled, in order
    previous,       \* history of the invocation before this one, when there was one
    mapped,         \* computeDestinationFilePath called on its own: paths and results
    walk            \* generatePaths called on its own: the state of its loop

\* what lies outside one invocation of _packageESM
outside == << previous, mapped, walk >>

vars == << options, pc, in_queue, queue, seenDir, filePath, fileContents, info, i,
           disk, lazy, dirs, error, readLog, writeLog, mkdirLog, existsLog, importLog,
           previous, mapped, walk >>

ESM_SRC == PathJoin(options.repoRoot, options.esmSource)
ESM_DEST == PathJoin(options.repoRoot, options.esmDestination)

\* fs.existsSync
Exists(p) == p \in DOMAIN disk \/ p \in lazy \/ p \in dirs

(***************************************************************************)
(* ts.preProcessFile: every quoted module specifier of the text with its   *)
(* offsets: pos is the offset of the opening quote, end = pos + length.    *)
(***************************************************************************)
RECURSIVE ScanImports(_, _)
ScanClose(text, open, close) ==
    IF close = -1 THEN <<>>
    ELSE << [fileName |-> SubSeq(text, open + 2, close),
             pos |-> open,
             end |-> open + (close - open - 1)] >>
         \o ScanImports(text, close + 1)

ScanOpen(text, open) ==
    IF open = -1 THEN <<>>
    ELSE Let3(text, open, IndexFrom(text, "'", open + 1), ScanClose)

ScanImports(text, from) == Let2(text, IndexFrom(text, "'", from), ScanOpen)

preProcessFile(text) == [importedFiles |-> Let2(text, 0, ScanImports)]

(***************************************************************************)
(* The closures of _packageESM.                                            *)
(***************************************************************************)
\* faulty variant: the path is marked but never pushed
enqueueMarkOnly(q, p) ==
    [in_queue |-> q.in_queue \cup {p}, queue |-> q.queue]

\* faulty variant: the in_queue test is missing
enqueueAlways(q, p) ==
    [in_queue |-> q.in_queue \cup {p}, queue |-> Append(q.queue, p)]

\* faulty variant: the path is put at the front of the queue
enqueuePrepend(q, p) ==
    IF p \in q.in_queue THEN q
    ELSE [in_queue |-> q.in_queue \cup {p}, queue |-> <<p>> \o q.queue]

\* faulty variant: the path is pushed but not marked pending
enqueueUnmarked(q, p) ==
    IF p \in q.in_queue THEN q
    ELSE [in_queue |-> q.in_queue, queue |-> Append(q.queue, p)]

\* enqueue, on a (in_queue, queue) pair
enqueue(q, p) ==
    IF p \in q.in_queue THEN q
    ELSE [in_queue |-> q.in_queue \cup {p}, queue |-> Append(q.queue, p)]

RECURSIVE enqueueAll(_, _)
enqueueNext(q, paths) ==
    IF Len(paths) = 0 THEN q
    ELSE enqueueAll(Let2(q, Head(paths), enqueue), Tail(paths))

\* lines 116-118: the entry points, in order
enqueueAll(q, paths) == Let2(q, paths, enqueueNext)

\* fs.mkdirSync succeeds only for a new directory whose parent exists
MkdirSucceeds(d, dir) ==
    /\ Len(dir) > 0
    /\ dir \notin d
    /\ dir \notin DOMAIN disk /\ dir \notin lazy
    /\ PathDirname(dir) \in d

LastSlashOf(slash, backslash) == IF slash = -1 THEN backslash ELSE slash

\* lines 62-65
LastSlash(dir) == Let2(LastIndexOf(dir, "/"), LastIndexOf(dir, "\\"), LastSlashOf)

\* faulty variant: the directory is not recorded in seenDir
MarkAndMkdirUnmarked(st, dir) ==
    [seen |-> st.seen,
     dirs |-> IF MkdirSucceeds(st.dirs, dir) THEN st.dirs \cup {dir} ELSE st.dirs,
     log  |-> Append(st.log, dir)]

\* lines 69-70: mark the directory and attempt its creation, errors swallowed
MarkAndMkdir(st, dir) ==
    [seen |-> st.seen \cup {dir},
     dirs |-> IF MkdirSucceeds(st.dirs, dir) THEN st.dirs \cup {dir} ELSE st.dirs,
     log  |-> Append(st.log, dir)]

\* faulty variant: the parent directory is not handled first
createDirectoryWithoutParent(st, dir, lastSlash) == Let2(st, dir, MarkAndMkdir)

RECURSIVE createDirectoryRecursive(_, _)
\* lines 62-70: the parent first, when dir has a separator at offset lastSlash
createDirectoryAfterParent(st, dir, lastSlash) ==
    Let2(IF lastSlash # -1
         THEN createDirectoryRecursive(st, SubSeq(dir, 1, lastSlash))
         ELSE st,
         dir, MarkAndMkdir)

createDirectoryUnseen(st, dir) ==
    IF dir \in st.seen THEN st
    ELSE Let3(st, dir, LastSlash(dir), createDirectoryAfterParent)

\* createDirectoryRecursive, on the record (seen, dirs, log)
createDirectoryRecursive(st, dir) == Let2(st, dir, createDirectoryUnseen)

\* options.destinationFolderSimplification[test]
RECURSIVE SimplificationLookup(_, _)
SimplificationLookup(test, k) ==
    IF k > Len(options.destinationFolderSimplification) THEN "undefined"
    ELSE IF options.destinationFolderSimplification[k].key = test
         THEN options.destinationFolderSimplification[k].value
         ELSE SimplificationLookup(test, k + 1)

SimplificationValue(test) == SimplificationLookup(test, 1)

RECURSIVE ReplaceWhilePresent(_, _)
ReplaceIfPresent(p, test) ==
    IF IndexOf(p, test) >= 0
    THEN ReplaceWhilePresent(ReplaceFirst(p, test, SimplificationValue(test)), test)
    ELSE p

\* lines 79-81: the while loop for one key
ReplaceWhilePresent(p, test) == Let2(p, test, ReplaceIfPresent)

\* lines 77-82: the keys in order
RECURSIVE SimplifyFrom(_, _)
SimplifyFrom(p, k) ==
    IF k > Len(options.destinationFolderSimplification) THEN p
    ELSE SimplifyFrom(
            ReplaceWhilePresent(p,
                BackslashToSlash(options.destinationFolderSimplification[k].key)),
            k + 1)

applyDestinationFolderSimplifications(p) == SimplifyFrom(BackslashToSlash(p), 1)

\* faulty variant: the loop over resolveSkip starts at its second element
shouldSkipFromSecond(importText) ==
    \E k \in 2..Len(options.resolveSkip) : IndexOf(importText, options.resolveSkip[k]) = 0

shouldSkipImport(importText) ==
    \E k \in 1..Len(options.resolveSkip) : IndexOf(importText, options.resolveSkip[k]) = 0

\* faulty variant: every file is put directly into the destination directory
DestinationFlat(p, src, dest) ==
    PathJoin(dest, SubstringFrom(p, LastIndexOf(p, "/") + 1))

\* lines 97-107
DestinationOf(p, src, dest) ==
    IF IndexOf(p, src) = 0
    THEN PathJoin(dest, PathRelative(src, p))
    ELSE PathNormalize(
            applyDestinationFolderSimplifications(
                PathJoin(dest, PathRelative(options.repoRoot, p))))

computeDestinationFilePath(p) == Let3(p, ESM_SRC, ESM_DEST, DestinationOf)

\* options.resolveAlias[importText] is truthy
HasAlias(importText) ==
    /\ importText \in DOMAIN options.resolveAlias
    /\ options.resolveAlias[importText] # ""

(***************************************************************************)
(* findNodeModuleImport and its helpers.                                   *)
(***************************************************************************)
RECURSIVE generatePathsFrom(_, _, _)
RECURSIVE generatePathsBelowRoot(_, _, _)
\* faulty variant: the walk stops before the repository root
generatePathsStrict(repoRoot, module, sourceDir) ==
    IF Len(sourceDir) > Len(repoRoot)
    THEN << PathJoin3(sourceDir, "node_modules", module) >>
         \o generatePathsBelowRoot(repoRoot, module, PathDirname(sourceDir))
    ELSE <<>>

generatePathsBelowRoot(repoRoot, module, sourceDir) ==
    Let3(repoRoot, module, sourceDir, generatePathsStrict)

\* lines 208-211: one candidate per directory, while the directory is not shorter
\* than the root
generatePathsWhile(repoRoot, module, sourceDir) ==
    IF Len(sourceDir) >= Len(repoRoot)
    THEN << PathJoin3(sourceDir, "node_modules", module) >>
         \o generatePathsFrom(repoRoot, module, PathDirname(sourceDir))
    ELSE <<>>

generatePathsFrom(repoRoot, module, sourceDir) ==
    Let3(repoRoot, module, sourceDir, generatePathsWhile)

generatePaths(repoRoot, module, sourceFilePath) ==
    generatePathsFrom(repoRoot, module, PathDirname(sourceFilePath))

\* faulty variant: the last candidate that exists is taken
LastExisting(paths) ==
    IF \E k \in 1..Len(paths) : Exists(paths[k])
    THEN Greatest({k \in 1..Len(paths) : Exists(paths[k])})
    ELSE 0

\* lines 196-200: the index of the first candidate that exists, 0 when none does
FirstExisting(paths) ==
    IF \E k \in 1..Len(paths) : Exists(paths[k])
    THEN Least({k \in 1..Len(paths) : Exists(paths[k])})
    ELSE 0

Failure(kind, message, probes) ==
    [ok |-> FALSE, kind |-> kind, value |-> message, probes |-> probes]

Success(value, probes) ==
    [ok |-> TRUE, kind |-> "", value |-> value, probes |-> probes]

findNodeModuleAt(module, sourceFilePath, modulePaths, k) ==
    IF k # 0
    THEN Success(modulePaths[k], SubSeq(modulePaths, 1, k))
    ELSE Failure("module-not-found",
                 "Cannot find module " \o module \o " requested by " \o sourceFilePath,
                 modulePaths)

findNodeModuleIn(module, sourceFilePath, modulePaths) ==
    Let4(module, sourceFilePath, modulePaths, FirstExisting(modulePaths), findNodeModuleAt)

findNodeModule(repoRoot, module, sourceFilePath) ==
    Let3(module, sourceFilePath, generatePaths(repoRoot, module, sourceFilePath),
         findNodeModuleIn)

\* JSON.parse(text).module, when it is a string
ManifestValue(after, close) ==
    IF close = -1 THEN [isString |-> FALSE, value |-> ""]
    ELSE [isString |-> TRUE, value |-> SubSeq(after, 1, close)]

ManifestAfter(after) == Let2(after, IndexOf(after, "\""), ManifestValue)

ManifestAt(text, at) ==
    IF at = -1 THEN [isString |-> FALSE, value |-> ""]
    ELSE Let1(SubstringFrom(text, at + 10), ManifestAfter)

ManifestModule(text) == Let2(text, IndexOf(text, "\"module\":\""), ManifestAt)

\* lines 188-192
CheckEntryFile(result, probes) ==
    IF ~Exists(result)
    THEN Failure("missing-entry-file", "Missing file " \o result, Append(probes, result))
    ELSE Success(result, Append(probes, result))

\* lines 183-186
CheckEntryField(modulePath, modulePackagePath, modulePackage, probes) ==
    IF ~modulePackage.isString
    THEN Failure("missing-entry-field",
                 "Missing property 'module' package.json at " \o modulePackagePath, probes)
    ELSE Let2(PathJoin(modulePath, modulePackage.value), probes, CheckEntryFile)

\* lines 178-181
CheckManifest(modulePath, modulePackagePath, probes) ==
    IF ~Exists(modulePackagePath)
    THEN Failure("missing-manifest",
                 "Missing " \o modulePackagePath \o " in node module " \o modulePath,
                 Append(probes, modulePackagePath))
    ELSE Let4(modulePath, modulePackagePath,
              ManifestModule(disk[modulePackagePath]),
              Append(probes, modulePackagePath), CheckEntryField)

ReadPackage(found) ==
    IF ~found.ok THEN found
    ELSE Let3(found.value, PathJoin(found.value, "package.json"), found.probes,
              CheckManifest)

findNodeModuleImport(repoRoot, module, sourceFilePath) ==
    Let1(findNodeModule(repoRoot, module, sourceFilePath), ReadPackage)

(***************************************************************************)
(* One import reference of the file being processed (lines 126-169).       *)
(***************************************************************************)
Resolved(how, r) ==
    [how |-> how, ok |-> r.ok, kind |-> r.kind, probes |-> r.probes, value |-> r.value]

\* faulty variant: the alias table is consulted before the relative test
ResolveAliasFirst(importText, importer) ==
    IF HasAlias(importText)
    THEN Let2("alias", Success(options.resolveAlias[importText], <<>>), Resolved)
    ELSE IF IsRelativeSpecifier(importText)
    THEN Let2("relative",
              Success(PathJoin(PathDirname(importer), importText) \o ".js", <<>>),
              Resolved)
    ELSE Let2("node_modules",
              findNodeModuleImport(options.repoRoot, importText, importer), Resolved)

\* lines 139 and 145-149: the file an import reference names
ResolveImport(importText, importer) ==
    IF IsRelativeSpecifier(importText)
    THEN Let2("relative",
              Success(PathJoin(PathDirname(importer), importText) \o ".js", <<>>),
              Resolved)
    ELSE IF HasAlias(importText)
    THEN Let2("alias", Success(options.resolveAlias[importText], <<>>), Resolved)
    ELSE Let2("node_modules",
              findNodeModuleImport(options.repoRoot, importText, importer), Resolved)

Dotted(relativePath) ==
    IF ~IsRelativeSpecifier(relativePath) THEN "./" \o relativePath ELSE relativePath

\* lines 154-156
EnsureDotted(relativePath) == Let1(relativePath, Dotted)

\* lines 151-159: the specifier written in place of a non-relative import
RewrittenSpecifier(importer, importedFilename) ==
    StripJsSuffix(BackslashToSlash(EnsureDotted(
        PathRelative(PathDirname(computeDestinationFilePath(importer)),
                     computeDestinationFilePath(importedFilename)))))

\* faulty variant: the splice starts at the opening quote instead of after it
SpliceAtQuote(contents, pos, end, relativePath) ==
    Substring(contents, 0, pos) \o relativePath \o SubstringFrom(contents, end + 1)

\* lines 161-165
Splice(contents, pos, end, relativePath) ==
    Substring(contents, 0, pos + 1) \o relativePath \o SubstringFrom(contents, end + 1)

NoError == [kind |-> "", message |-> ""]

\* no invocation before this one
NoInvocation == [ran |-> FALSE, readLog |-> <<>>, writeLog |-> <<>>]

\* generatePaths not called
NoWalk == [repoRoot |-> "", module |-> "", sourceFilePath |-> "", sourceDir |-> "",
           result |-> <<>>, selected |-> 0, at |-> "idle"]

\* the state before _packageESM is called with one of the given options
InitWith(space) ==
    /\ options \in space
    /\ previous = NoInvocation
    /\ mapped = <<>>
    /\ walk = NoWalk
    /\ pc = "start"
    /\ in_queue = {}
    /\ queue = <<>>
    /\ seenDir = {}
    /\ filePath = ""
    /\ fileContents = ""
    /\ info = <<>>
    /\ i = -1
    /\ disk = Manifests
    /\ lazy = SourceFiles
    /\ dirs = InitialDirs
    /\ error = NoError
    /\ readLog = <<>>
    /\ writeLog = <<>>
    /\ mkdirLog = <<>>
    /\ existsLog = <<>>
    /\ importLog = <<>>

Init == InitWith(OptionsSpace)

Seeds(src) == [k \in 1..Len(options.entryPoints) |-> PathJoin(src, options.entryPoints[k])]

SetQueue(q) ==
    /\ in_queue' = q.in_queue
    /\ queue' = q.queue

StartWith(root) ==
    /\ options' = [options EXCEPT !.repoRoot = root]
    /\ seenDir' = {root}
    /\ \E q \in {enqueueAll([in_queue |-> {}, queue |-> <<>>],
                            Seeds(PathJoin(root, options.esmSource)))} : SetQueue(q)

\* lines 40-118: normalise the root, mark it created, seed the queue
Start ==
    /\ UNCHANGED outside
    /\ pc = "start"
    /\ \E root \in {StripTrailingSeparator(PathNormalize(options.repoRoot))} :
            StartWith(root)
    /\ pc' = "loop"
    /\ UNCHANGED << filePath, fileContents, info, i, disk, lazy, dirs, error,
                    readLog, writeLog, mkdirLog, existsLog, importLog >>

\* faulty variant: the loop stops one element early
LoopStopsEarly(q) == Len(q) > 1

\* line 120: the condition of the while loop
LoopContinues(q) == Len(q) > 0

\* the texts readFileSync may return for a file
TextsOf(p) == IF p \in lazy THEN {TextOf(l) : l \in ImportChoices(p)} ELSE {disk[p]}

ReadAs(p, text, scanned) ==
    /\ disk' = [f \in DOMAIN disk \cup {p} |-> IF f = p THEN text ELSE disk[f]]
    /\ lazy' = lazy \ {p}
    /\ filePath' = p
    /\ fileContents' = text
    /\ info' = scanned.importedFiles
    /\ i' = Len(scanned.importedFiles) - 1
    /\ readLog' = Append(readLog, [file |-> p, text |-> text])

\* lines 120-124: take the head of the queue, read it and scan its imports
Dequeue ==
    /\ UNCHANGED outside
    /\ pc = "loop"
    /\ LoopContinues(queue)
    /\ Head(queue) \in DOMAIN disk \cup lazy
    /\ \E text \in TextsOf(Head(queue)) :
        \E scanned \in {preProcessFile(text)} : ReadAs(Head(queue), text, scanned)
    /\ queue' = Tail(queue)
    /\ pc' = "imports"
    /\ UNCHANGED << options, in_queue, seenDir, dirs, error,
                    writeLog, mkdirLog, existsLog, importLog >>

\* line 123: readFileSync throws when the file does not exist
ReadFails ==
    /\ UNCHANGED outside
    /\ pc = "loop"
    /\ LoopContinues(queue)
    /\ Head(queue) \notin DOMAIN disk \cup lazy
    /\ filePath' = Head(queue)
    /\ queue' = Tail(queue)
    /\ pc' = "failed"
    /\ error' = [kind |-> "read-error",
                 message |-> "ENOENT: no such file or directory, open '"
                                \o Head(queue) \o "'"]
    /\ UNCHANGED << options, in_queue, seenDir, fileContents, info, i, disk, lazy, dirs,
                    readLog, writeLog, mkdirLog, existsLog, importLog >>

\* faulty variant: the references are taken from the first to the last
importedFileFromStart(refs, k) == refs[Len(refs) - k]

\* line 127: info.importedFiles[i]
importedFile(refs, k) == refs[k + 1]

ImportEntry(ref, how, target, relativePath) ==
    [file |-> filePath, index |-> i, importText |-> ref.fileName,
     pos |-> ref.pos, end |-> ref.end, how |-> how, target |-> target,
     relativePath |-> relativePath]

\* lines 129-131: a skipped import
SkipImport ==
    /\ UNCHANGED outside
    /\ pc = "imports"
    /\ i >= 0
    /\ shouldSkipImport(importedFile(info, i).fileName)
    /\ i' = i - 1
    /\ importLog' = Append(importLog, ImportEntry(importedFile(info, i), "skip", "", ""))
    /\ UNCHANGED << options, pc, in_queue, queue, seenDir, filePath, fileContents, info,
                    disk, lazy, dirs, error, readLog, writeLog, mkdirLog, existsLog >>

RelativeResolved(ref, res) ==
    /\ \E q \in {enqueue([in_queue |-> in_queue, queue |-> queue], res.value)} : SetQueue(q)
    /\ importLog' = Append(importLog, ImportEntry(ref, res.how, res.value, ""))

\* lines 136-141: a relative import is enqueued, the text is left alone
RelativeImport ==
    /\ UNCHANGED outside
    /\ pc = "imports"
    /\ i >= 0
    /\ ~shouldSkipImport(importedFile(info, i).fileName)
    /\ IsRelativeSpecifier(importedFile(info, i).fileName)
    /\ \E res \in {ResolveImport(importedFile(info, i).fileName, filePath)} :
            RelativeResolved(importedFile(info, i), res)
    /\ i' = i - 1
    /\ UNCHANGED << options, pc, seenDir, filePath, fileContents, info,
                    disk, lazy, dirs, error, readLog, writeLog, mkdirLog, existsLog >>

RewriteTo(ref, res, relativePath) ==
    /\ fileContents' = Splice(fileContents, ref.pos, ref.end, relativePath)
    /\ \E q \in {enqueue([in_queue |-> in_queue, queue |-> queue], res.value)} : SetQueue(q)
    /\ existsLog' = existsLog \o res.probes
    /\ importLog' = Append(importLog, ImportEntry(ref, res.how, res.value, relativePath))

RewriteResolved(ref, res) ==
    /\ res.ok
    /\ \E relativePath \in {RewrittenSpecifier(filePath, res.value)} :
            RewriteTo(ref, res, relativePath)

\* lines 142-168: an aliased or node_modules import is rewritten and enqueued
RewriteImport ==
    /\ UNCHANGED outside
    /\ pc = "imports"
    /\ i >= 0
    /\ ~shouldSkipImport(importedFile(info, i).fileName)
    /\ ~IsRelativeSpecifier(importedFile(info, i).fileName)
    /\ \E res \in {ResolveImport(importedFile(info, i).fileName, filePath)} :
            RewriteResolved(importedFile(info, i), res)
    /\ i' = i - 1
    /\ UNCHANGED << options, pc, seenDir, filePath, info,
                    disk, lazy, dirs, error, readLog, writeLog, mkdirLog >>

\* faulty variant: the error is caught and the loop goes on with the next file
ThrownAndCaught(res) ==
    /\ ~res.ok
    /\ error' = [kind |-> res.kind, message |-> res.value]
    /\ existsLog' = existsLog \o res.probes
    /\ pc' = "loop"

\* the error is not caught anywhere in _packageESM
Thrown(res) ==
    /\ ~res.ok
    /\ error' = [kind |-> res.kind, message |-> res.value]
    /\ existsLog' = existsLog \o res.probes
    /\ pc' = "failed"

\* line 148: findNodeModuleImport throws, the error leaves _packageESM
ImportFails ==
    /\ UNCHANGED outside
    /\ pc = "imports"
    /\ i >= 0
    /\ ~shouldSkipImport(importedFile(info, i).fileName)
    /\ ~IsRelativeSpecifier(importedFile(info, i).fileName)
    /\ \E res \in {ResolveImport(importedFile(info, i).fileName, filePath)} : Thrown(res)
    /\ UNCHANGED << options, in_queue, queue, seenDir, filePath, fileContents, info, i,
                    disk, lazy, dirs, readLog, writeLog, mkdirLog, importLog >>

\* fs.writeFileSync needs the parent directory, and no directory at the path itself
Writable(d, finalFilePath) ==
    PathDirname(finalFilePath) \in d /\ finalFilePath \notin d

\* lines 110-114
write(finalFilePath, st) ==
    /\ seenDir' = st.seen
    /\ dirs' = st.dirs
    /\ mkdirLog' = mkdirLog \o st.log
    /\ IF Writable(st.dirs, finalFilePath)
       THEN /\ disk' = [f \in DOMAIN disk \cup {finalFilePath} |->
                            IF f = finalFilePath THEN fileContents ELSE disk[f]]
            /\ lazy' = lazy \ {finalFilePath}
            /\ writeLog' = Append(writeLog,
                    [file |-> filePath, dest |-> finalFilePath, text |-> fileContents])
            /\ pc' = "loop"
            /\ error' = error
       ELSE /\ pc' = "failed"
            /\ error' = [kind |-> "write-error",
                         message |-> "ENOENT: no such file or directory, open '"
                                        \o finalFilePath \o "'"]
            /\ UNCHANGED << disk, lazy, writeLog >>

writeTo(finalFilePath) ==
    \E st \in {createDirectoryRecursive([seen |-> seenDir, dirs |-> dirs, log |-> <<>>],
                                        PathDirname(finalFilePath))} :
        write(finalFilePath, st)

\* line 171: all references handled, the file is written
WriteFile ==
    /\ UNCHANGED outside
    /\ pc = "imports"
    /\ i < 0
    /\ \E finalFilePath \in {computeDestinationFilePath(filePath)} : writeTo(finalFilePath)
    /\ UNCHANGED << options, in_queue, queue, filePath, fileContents, info, i,
                    readLog, existsLog, importLog >>

\* line 120: the queue is empty, _packageESM returns
Finish ==
    /\ UNCHANGED outside
    /\ pc = "loop"
    /\ ~LoopContinues(queue)
    /\ pc' = "done"
    /\ UNCHANGED << options, in_queue, queue, seenDir, filePath, fileContents, info, i,
                    disk, lazy, dirs, error, readLog, writeLog, mkdirLog, existsLog,
                    importLog >>

Next ==
    \/ Start
    \/ Dequeue
    \/ ReadFails
    \/ SkipImport
    \/ RelativeImport
    \/ RewriteImport
    \/ ImportFails
    \/ WriteFile
    \/ Finish

Spec == Init /\ [][Next]_vars

\* the run is one straight-line computation: every enabled step is taken
FairSpec == Spec /\ WF_vars(Next)

(***************************************************************************)
(* Two invocations in a row, on the same options object and the same disk. *)
(***************************************************************************)
\* roots as a caller may write them: plain, and with a trailing slash and
\* backslash, of which line 40 strips one character per invocation
RerunRoots == {"/r", "/r/\\"}

RerunOptions ==
    { [ repoRoot |-> root,
        esmSource |-> "s",
        esmDestination |-> "d",
        entryPoints |-> << entry >>,
        resolveAlias |-> profile.resolveAlias,
        resolveSkip |-> profile.resolveSkip,
        destinationFolderSimplification |-> profile.destinationFolderSimplification ] :
      root \in RerunRoots,
      entry \in EntryNames,
      profile \in Profiles }

RerunInit == InitWith(RerunOptions)

\* lines 13-15: the caller invokes packageESM once more with the options object
\* of the invocation that has returned or thrown; the locals of lines 45-56 of
\* the earlier invocation are gone, whatever they held
Again ==
    /\ pc \in {"done", "failed"}
    /\ ~previous.ran
    /\ previous' = [ran |-> TRUE, readLog |-> readLog, writeLog |-> writeLog]
    /\ pc' = "start"
    /\ error' = NoError
    /\ readLog' = <<>>
    /\ writeLog' = <<>>
    /\ mkdirLog' = <<>>
    /\ existsLog' = <<>>
    /\ importLog' = <<>>
    /\ UNCHANGED << options, in_queue, queue, seenDir, filePath, fileContents, info, i,
                    disk, lazy, dirs, mapped, walk >>

RerunNext ==
    \/ Start
    \/ Dequeue
    \/ ReadFails
    \/ SkipImport
    \/ RelativeImport
    \/ RewriteImport
    \/ ImportFails
    \/ WriteFile
    \/ Finish
    \/ Again

RerunSpec == RerunInit /\ [][RerunNext]_vars

(***************************************************************************)
(* computeDestinationFilePath and generatePaths called on their own, with  *)
(* the options as _packageESM has set them up.                             *)
(***************************************************************************)
MaxCalls == 2

MaxCandidates == 5

\* simplification mappings: none, a key written with a slash, and the same key
\* written with a backslash
Mappings ==
    { <<>>,
      << [key |-> "node_modules/dep", value |-> "dep"] >>,
      << [key |-> "node_modules\\dep", value |-> "dep"] >> }

\* repository roots: a directory, and the filesystem root
CallRoots == {"/r", "/"}

CallOptions ==
    { [ repoRoot |-> root,
        esmSource |-> "s",
        esmDestination |-> "d",
        entryPoints |-> <<>>,
        resolveAlias |-> <<>>,
        resolveSkip |-> <<>>,
        destinationFolderSimplification |-> mapping ] :
      root \in CallRoots,
      mapping \in Mappings }

\* paths of processed files: source files, a file of a sibling directory whose
\* name starts like the source directory's, alias targets and package files
MappedPaths ==
    {"/r/s/a.js", "/r/s/u/a.js", "/r/s/x/lib.js", "/r/s/./a.js",
     "/r/s2/x.js", "/r/x/lib.js", "/r/dep/e.js", "/r/node_modules/dep/e.js"}

\* importing files: source files, a package file, and an alias target outside
\* the repository root
Importers == {"/r/s/a.js", "/r/s/u/c.js", "/r/node_modules/dep/e.js", "/x/lib.js"}

Modules == {"dep", "p9"}

CallsInit == InitWith(CallOptions)

\* lines 111, 151, 152: computeDestinationFilePath(filePath)
MapPath ==
    /\ pc = "loop"
    /\ walk.at = "idle"
    /\ Len(mapped) < MaxCalls
    /\ \E p \in MappedPaths :
        \E finalFilePath \in {computeDestinationFilePath(p)} :
            mapped' = Append(mapped, [path |-> p, dest |-> finalFilePath])
    /\ UNCHANGED << options, pc, in_queue, queue, seenDir, filePath, fileContents, info,
                    i, disk, lazy, dirs, error, readLog, writeLog, mkdirLog, existsLog,
                    importLog, previous, walk >>

\* lines 195, 205-206: findNodeModule calls generatePaths, which starts at the
\* directory of the importing file with no candidate
WalkBegin ==
    /\ pc = "loop"
    /\ walk.at = "idle"
    /\ mapped = <<>>
    /\ \E module \in Modules, sourceFilePath \in Importers :
        walk' = [repoRoot |-> options.repoRoot,
                 module |-> module,
                 sourceFilePath |-> sourceFilePath,
                 sourceDir |-> PathDirname(sourceFilePath),
                 result |-> <<>>,
                 selected |-> 0,
                 at |-> "while"]
    /\ UNCHANGED << options, pc, in_queue, queue, seenDir, filePath, fileContents, info,
                    i, disk, lazy, dirs, error, readLog, writeLog, mkdirLog, existsLog,
                    importLog, previous, mapped >>

\* line 207: the condition of the while loop
WalkContinues(sourceDir, repoRoot) == Len(sourceDir) >= Len(repoRoot)

\* lines 207-210: one turn of the loop (followed here up to MaxCandidates turns)
WalkStep ==
    /\ walk.at = "while"
    /\ WalkContinues(walk.sourceDir, walk.repoRoot)
    /\ Len(walk.result) < MaxCandidates
    /\ walk' = [walk EXCEPT
                    !.result = Append(@, PathJoin3(walk.sourceDir, "node_modules",
                                                   walk.module)),
                    !.sourceDir = PathDirname(@)]
    /\ UNCHANGED << options, pc, in_queue, queue, seenDir, filePath, fileContents, info,
                    i, disk, lazy, dirs, error, readLog, writeLog, mkdirLog, existsLog,
                    importLog, previous, mapped >>

\* lines 211, 196-201: the loop is left, findNodeModule takes the first existing
\* candidate (0: none, it throws)
WalkEnd ==
    /\ walk.at = "while"
    /\ ~WalkContinues(walk.sourceDir, walk.repoRoot)
    /\ walk' = [walk EXCEPT !.selected = FirstExisting(walk.result),
                            !.at = "returned"]
    /\ UNCHANGED << options, pc, in_queue, queue, seenDir, filePath, fileContents, info,
                    i, disk, lazy, dirs, error, readLog, writeLog, mkdirLog, existsLog,
                    importLog, previous, mapped >>

CallsNext ==
    \/ Start
    \/ MapPath
    \/ WalkBegin
    \/ WalkStep
    \/ WalkEnd

CallsSpec == CallsInit /\ [][CallsNext]_vars

(***************************************************************************)
(* Properties.                                                             *)
(***************************************************************************)
FilesRead == {readLog[k].file : k \in 1..Len(readLog)}
FilesWritten == {writeLog[k].file : k \in 1..Len(writeLog)}
DirsAttempted == {mkdirLog[k] : k \in 1..Len(mkdirLog)}

\* the text a file had when the run read it
TextRead(f) == (CHOOSE k \in 1..Len(readLog) : readLog[k].file = f)

\* the entry points as absolute paths
Seeded == {PathJoin(ESM_SRC, options.entryPoints[k]) : k \in 1..Len(options.entryPoints)}

\* the files the non-skipped imports of a text name, when imported from f
TargetsOf(f, refs) ==
    {ResolveImport(refs[k].fileName, f).value :
        k \in {n \in 1..Len(refs) : ~shouldSkipImport(refs[n].fileName)}}

\* the import edges of the files the run has read; an unread file has none
ImportedBy(f) ==
    IF f \in FilesRead
    THEN TargetsOf(f, preProcessFile(readLog[TextRead(f)].text).importedFiles)
    ELSE {}

RECURSIVE Closure(_)
ClosureStep(S, next) == IF next \subseteq S THEN S ELSE Closure(S \cup next)

\* the least set that holds S and the imports of its members
Closure(S) == Let2(S, UNION {ImportedBy(f) : f \in S}, ClosureStep)

\* C1: when packageESM returns, the files read and the files written are both
\* exactly the files reachable from the entry points through non-skipped imports.
C1_ReachabilityClosure ==
    pc = "done" => /\ FilesRead = Closure(Seeded)
                   /\ FilesWritten = FilesRead

C1_Witness ==
    /\ pc = "done"
    /\ Cardinality(FilesWritten) >= 4
    /\ "/r/s/unused.js" \in lazy
    /\ \E k \in 1..Len(importLog) : importLog[k].how = "skip"

\* C2: no file is read twice and no file is written twice in one run.
C2_NoDoubleProcessing ==
    /\ Cardinality(FilesRead) = Len(readLog)
    /\ Cardinality(FilesWritten) = Len(writeLog)

C2_Witness ==
    /\ pc = "done"
    /\ options.entryPoints = <<"a.js", "a.js">>
    /\ \E j, k \in 1..Len(importLog) :
        /\ importLog[j].target = importLog[k].target
        /\ importLog[j].how = "relative"
        /\ importLog[k].how = "alias"
    /\ \E k \in 1..Len(importLog) : importLog[k].target = importLog[k].file

\* the destination directory of the file about to be written
PendingDirectory == PathDirname(computeDestinationFilePath(filePath))

\* C10: no directory is passed to mkdir twice in one run, and writing into a
\* directory already handled attempts no creation and raises no error.
C10_IdempotentDirectoryCreation ==
    [][ /\ Cardinality({mkdirLog'[k] : k \in 1..Len(mkdirLog')}) = Len(mkdirLog')
        /\ (pc = "imports" /\ i < 0 /\ PendingDirectory \in seenDir)
                => (mkdirLog' = mkdirLog /\ pc' = "loop") ]_vars

C10_Witness ==
    /\ Len(mkdirLog) >= 3
    /\ \E j, k \in 1..Len(writeLog) :
        /\ j < k
        /\ PathDirname(writeLog[j].dest) = PathDirname(writeLog[k].dest)
        /\ PathDirname(writeLog[j].dest) # ESM_DEST

\* C3: every run halts: it either fails on an unresolved import or returns with
\* an empty queue, also when the import graph has cycles.
C3_Termination == <>(pc = "failed" \/ (pc = "done" /\ queue = <<>>))

C3_Witness ==
    /\ pc = "done"
    /\ queue = <<>>
    /\ \E j, k \in 1..Len(importLog) :
        /\ j # k
        /\ importLog[j].file = importLog[k].target
        /\ importLog[k].file = importLog[j].target

\* the text an import reference is expected to carry in the output
Replacement(f, ref) ==
    IF shouldSkipImport(ref.fileName) \/ IsRelativeSpecifier(ref.fileName)
    THEN ref.fileName
    ELSE RewrittenSpecifier(f, ResolveImport(ref.fileName, f).value)

\* the source text, left to right, with every specifier span replaced
RECURSIVE ExpectedFrom(_, _, _, _, _)
ExpectedFrom(source, f, refs, k, cursor) ==
    IF k > Len(refs) THEN SubSeq(source, cursor + 1, Len(source))
    ELSE SubSeq(source, cursor + 1, refs[k].pos + 1)
         \o Replacement(f, refs[k])
         \o ExpectedFrom(source, f, refs, k + 1, refs[k].pos + 1 + Len(refs[k].fileName))

ExpectedText(f, source) ==
    ExpectedFrom(source, f, preProcessFile(source).importedFiles, 1, 0)

\* C4: the text written for a file is the text read with the specifier of every
\* non-skipped non-relative import replaced by its relative specifier and every
\* other character, quotes included, unchanged and in place.
C4_OutputText ==
    [][ Len(writeLog') > Len(writeLog) =>
            \A w \in {writeLog'[Len(writeLog')]} :
                w.text = ExpectedText(w.file, readLog[TextRead(w.file)].text) ]_vars

C4_Witness ==
    \E k \in 1..Len(writeLog) : \E m, n \in 1..Len(importLog) :
        /\ importLog[m].file = writeLog[k].file
        /\ importLog[n].file = writeLog[k].file
        /\ importLog[m].index = 0
        /\ importLog[n].index = 1
        /\ importLog[m].how = "alias"
        /\ importLog[n].how = "node_modules"
        /\ Len(importLog[m].relativePath) # Len(importLog[m].importText)
        /\ Len(importLog[n].relativePath) # Len(importLog[n].importText)

\* a configured skip prefix is a prefix of the specifier
SkipPrefixMatches(importText) ==
    \E k \in 1..Len(options.resolveSkip) :
        /\ Len(options.resolveSkip[k]) <= Len(importText)
        /\ SubSeq(importText, 1, Len(options.resolveSkip[k])) = options.resolveSkip[k]

UnskippedTargetsOf(f, refs) ==
    {ResolveImport(refs[k].fileName, f).value :
        k \in {n \in 1..Len(refs) : ~SkipPrefixMatches(refs[n].fileName)}}

\* the files named by an import that matches no skip prefix, over the files read
UnskippedTargets ==
    UNION {UnskippedTargetsOf(readLog[k].file, preProcessFile(readLog[k].text).importedFiles) :
            k \in 1..Len(readLog)}

\* C5: handling an import whose specifier starts with a skip prefix probes nothing
\* on disk, raises nothing, enqueues nothing and leaves the text alone; every path
\* ever enqueued is an entry point or the target of an import that is not skipped.
C5_SkipList ==
    [][ /\ (pc = "imports" /\ i >= 0 /\ SkipPrefixMatches(info[i + 1].fileName))
            => /\ existsLog' = existsLog
               /\ in_queue' = in_queue
               /\ queue' = queue
               /\ fileContents' = fileContents
               /\ pc' = "imports"
               /\ i' = i - 1
        /\ in_queue \subseteq (Seeded \cup UnskippedTargets) ]_vars

C5_Witness ==
    /\ pc = "done"
    /\ \E k \in 1..Len(importLog) :
        /\ importLog[k].how = "skip"
        /\ importLog[k].importText = "vs/x"
        /\ \E w \in 1..Len(writeLog) :
            /\ writeLog[w].file = importLog[k].file
            /\ IndexOf(writeLog[w].text, "'vs/x'") >= 0
    /\ "/r/node_modules/vs/x/v.js" \in lazy
    /\ "/r/node_modules/vs/x/v.js" \notin in_queue
    /\ "vs/x" \in DOMAIN options.resolveAlias
    /\ options.resolveAlias["vs/x"] \notin in_queue

(***************************************************************************)
(* Resolution of one import reference, stated from the paths alone.        *)
(***************************************************************************)
StartsWith(s, prefix) ==
    Len(prefix) <= Len(s) /\ SubSeq(s, 1, Len(prefix)) = prefix

EndsWith(s, suffix) ==
    Len(suffix) <= Len(s) /\ SubSeq(s, Len(s) - Len(suffix) + 1, Len(s)) = suffix

\* the import reference the next step handles, when it is not skipped
PendingImport ==
    /\ pc = "imports"
    /\ i >= 0
    /\ ~SkipPrefixMatches(info[i + 1].fileName)

PendingRelative ==
    /\ PendingImport
    /\ (StartsWith(info[i + 1].fileName, "./") \/ StartsWith(info[i + 1].fileName, "../"))

PendingAliased ==
    /\ PendingImport
    /\ ~PendingRelative
    /\ info[i + 1].fileName \in DOMAIN options.resolveAlias

PendingBare ==
    /\ PendingImport
    /\ ~PendingRelative
    /\ info[i + 1].fileName \notin DOMAIN options.resolveAlias

\* the step handled one import reference and resolved it to target
HandledAs(target) ==
    /\ pc' = "imports"
    /\ i' = i - 1
    /\ Len(importLog') = Len(importLog) + 1
    /\ importLog'[Len(importLog')].target = target
    /\ target \in in_queue'

\* C6: a non-skipped specifier that begins with ./ or ../ resolves to the
\* importer's directory joined with the specifier plus .js, whatever the alias
\* table holds, and probes nothing; any other specifier with an alias entry
\* resolves to the entry's path, probes nothing and raises nothing; only a
\* specifier without an entry goes to the package lookup, whose result it takes.
C6_ResolutionClassification ==
    [][ /\ PendingRelative =>
                /\ HandledAs(PathJoin(PathDirname(filePath), info[i + 1].fileName) \o ".js")
                /\ existsLog' = existsLog
        /\ PendingAliased =>
                /\ HandledAs(options.resolveAlias[info[i + 1].fileName])
                /\ existsLog' = existsLog
        /\ PendingBare =>
                /\ Len(existsLog') > Len(existsLog)
                /\ \/ pc' = "failed"
                   \/ HandledAs(findNodeModuleImport(options.repoRoot,
                                                     info[i + 1].fileName, filePath).value)
        /\ existsLog' # existsLog => PendingBare ]_vars

C6_Witness ==
    /\ "./b" \in DOMAIN options.resolveAlias
    /\ \E j, k, m \in 1..Len(importLog) :
        /\ importLog[j].importText = "./b"
        /\ importLog[j].target = "/r/s/b.js"
        /\ importLog[k].how = "alias"
        /\ importLog[k].target = "/r/x/lib.js"
        /\ importLog[m].how = "node_modules"
        /\ importLog[m].importText = "dep"

\* the directories from the importer's own directory up to the repository root
AncestorsWithin(dirSegs, rootSegs) ==
    { "/" \o JoinSegments(SubSeq(dirSegs, 1, k)) : k \in Len(rootSegs)..Len(dirSegs) }

PackageDirectories(module, importer) ==
    { d \o "/node_modules/" \o module :
        d \in AncestorsWithin(ResolvedSegments(PathDirname(importer)),
                              ResolvedSegments(options.repoRoot)) }

\* C7: for a non-skipped bare specifier without an alias entry, module-not-found
\* is raised exactly when no <ancestor>/node_modules/<package> directory exists
\* from the importer's directory up to and including the repository root, and
\* the error names the package and the importing file.
C7_ModuleNotFound ==
    [][ PendingBare =>
            /\ (pc' = "failed" /\ error'.kind = "module-not-found")
                    <=> (PackageDirectories(info[i + 1].fileName, filePath) \cap dirs = {})
            /\ error'.kind = "module-not-found" =>
                    /\ IndexOf(error'.message, info[i + 1].fileName) >= 0
                    /\ IndexOf(error'.message, filePath) >= 0 ]_vars

C7_Witness ==
    /\ pc = "failed"
    /\ error.kind = "module-not-found"
    /\ filePath = "/r/s/a.js"
    /\ Len(existsLog) >= 5
    /\ \E k \in 1..Len(importLog) :
        /\ importLog[k].file = "/r/s/a.js"
        /\ importLog[k].target = "/r/node_modules/dep/e.js"

ResolutionErrors ==
    {"module-not-found", "missing-manifest", "missing-entry-field", "missing-entry-file"}

\* C8: when the package lookup of an import raises one of its four errors the run
\* stops at that step with that error: nothing is read or written by the step or
\* after it, the importing file is not written, and the queue is left as it was.
C8_AbortOnError ==
    [][ /\ (PendingBare
                /\ ~findNodeModuleImport(options.repoRoot, info[i + 1].fileName, filePath).ok)
            => /\ pc' = "failed"
               /\ error'.kind \in ResolutionErrors
               /\ error'.kind = findNodeModuleImport(options.repoRoot,
                                                     info[i + 1].fileName, filePath).kind
               /\ readLog' = readLog
               /\ writeLog' = writeLog
               /\ disk' = disk
               /\ queue' = queue
        /\ pc = "failed" => FALSE
        /\ (pc' = "failed" /\ error'.kind \in ResolutionErrors) =>
                \A k \in 1..Len(writeLog') : writeLog'[k].file # filePath' ]_vars

C8_Witness ==
    /\ pc = "failed"
    /\ error.kind = "missing-entry-file"
    /\ queue # <<>>
    /\ Len(writeLog) >= 2
    /\ filePath \notin FilesWritten

\* the file a relative specifier names when resolved from a file at path from
ResolveRelativeFrom(from, specifier) == PathJoin(PathDirname(from), specifier) \o ".js"

\* the import references that were rewritten
Rewritten == {k \in 1..Len(importLog) : importLog[k].how \in {"alias", "node_modules"}}

RoundTrips(e) ==
    ResolveRelativeFrom(computeDestinationFilePath(e.file), e.relativePath)
        = computeDestinationFilePath(e.target)

\* C9 as stated: the rewritten specifier of every non-relative import, resolved
\* from the importer's destination, is the destination of the import's target.
C9_RoundTripAnyTarget ==
    [][ Len(importLog') > Len(importLog) =>
            \A e \in {importLog'[Len(importLog')]} :
                e.how \in {"alias", "node_modules"} => RoundTrips(e) ]_vars

\* C9, amended: the same for every target whose destination path ends in .js.
C9_RoundTrip ==
    [][ Len(importLog') > Len(importLog) =>
            \A e \in {importLog'[Len(importLog')]} :
                (/\ e.how \in {"alias", "node_modules"}
                 /\ EndsWith(computeDestinationFilePath(e.target), ".js"))
                    => RoundTrips(e) ]_vars

C9_Witness ==
    \E j, k \in Rewritten :
        /\ importLog[j].how = "alias"
        /\ importLog[k].how = "node_modules"
        /\ StartsWith(importLog[k].relativePath, "../")
        /\ computeDestinationFilePath(importLog[k].target) = "/r/d/dep/e.js"
        /\ RoundTrips(importLog[j])
        /\ RoundTrips(importLog[k])

(***************************************************************************)
(* The directories created for the written files.                          *)
(***************************************************************************)
\* the part of a directory path before its last separator
ParentText(dir) == SubSeq(dir, 1, Greatest(Occurrences(dir, "/")))

\* the directories on the way from dir up to the repository root, dir included
RECURSIVE UpToRoot(_)
UpToRootNext(dir) ==
    IF dir = options.repoRoot \/ PathDirname(dir) = dir THEN {}
    ELSE {dir} \cup UpToRoot(PathDirname(dir))

UpToRoot(dir) == Let1(dir, UpToRootNext)

\* the k-th directory handed to mkdir comes after its parent
ParentFirst(k) ==
    Occurrences(mkdirLog[k], "/") # {} =>
        \/ ParentText(mkdirLog[k]) = options.repoRoot
        \/ \E j \in 1..(k - 1) : mkdirLog[j] = ParentText(mkdirLog[k])

\* C11: every directory marked created, other than the repository root marked at
\* the start, was handed to mkdir after its parent directory and exists on disk;
\* when a file is written, every directory from its parent up to the repository
\* root is marked created and exists.
C11_DirectorySet ==
    [][ /\ \A k \in 1..Len(mkdirLog') : ParentFirst(k)'
        /\ pc # "start" =>
                seenDir' = {options.repoRoot} \cup {mkdirLog'[k] : k \in 1..Len(mkdirLog')}
        /\ \A k \in 1..Len(mkdirLog') : mkdirLog'[k] \in dirs'
        /\ Len(writeLog') > Len(writeLog) =>
                \A w \in {writeLog'[Len(writeLog')]} :
                    /\ UpToRoot(PathDirname(w.dest)) \subseteq seenDir'
                    /\ UpToRoot(PathDirname(w.dest)) \subseteq dirs' ]_vars

C11_Witness ==
    /\ \E k \in 1..Len(writeLog) : Cardinality(UpToRoot(PathDirname(writeLog[k].dest))) >= 3
    /\ Len(mkdirLog) >= 4
    /\ \E j, k \in 1..Len(writeLog) :
        /\ j < k
        /\ PathDirname(PathDirname(writeLog[k].dest)) = PathDirname(writeLog[j].dest)

(***************************************************************************)
(* The text buffer while the references of one file are handled.           *)
(***************************************************************************)
\* C13: when a reference is spliced, the text buffer between the quotes at the
\* offsets recorded for it still holds its specifier, whatever was spliced
\* before for the references that come later in the text.
C13_OffsetStability ==
    [][ Len(importLog') > Len(importLog) =>
            \A e \in {importLog'[Len(importLog')]} :
                e.how \in {"alias", "node_modules"} =>
                    /\ Substring(fileContents, e.pos + 1, e.end + 1) = e.importText
                    /\ CharAt(fileContents, e.pos) = "'"
                    /\ CharAt(fileContents, e.end + 1) = "'" ]_vars

C13_Witness ==
    /\ pc = "imports"
    /\ i < 0
    /\ Len(info) >= 2
    /\ \E m, n \in 1..Len(importLog) :
        /\ m > n
        /\ importLog[m].file = filePath
        /\ importLog[n].file = filePath
        /\ importLog[m].index = 0
        /\ importLog[n].index = 1
        /\ importLog[m].how \in {"alias", "node_modules"}
        /\ importLog[n].how \in {"alias", "node_modules"}
        /\ Len(importLog[n].relativePath) > Len(importLog[n].importText)
        /\ Len(fileContents) > Len(readLog[Len(readLog)].text)

(***************************************************************************)
(* The order of processing.                                                *)
(***************************************************************************)
\* the paths handed to enqueue so far, in order: the entry points, then the
\* targets of the imports handled
EnqueueCalls ==
    [k \in 1..Len(options.entryPoints) |-> PathJoin(ESM_SRC, options.entryPoints[k])]
        \o [k \in 1..Len(SelectSeq(importLog, LAMBDA e : e.how # "skip")) |->
                SelectSeq(importLog, LAMBDA e : e.how # "skip")[k].target]

\* a sequence without the repetitions of its elements
RECURSIVE FirstOccurrences(_, _)
FirstOccurrencesNext(seq, acc) ==
    IF Len(seq) = 0 THEN acc
    ELSE FirstOccurrences(Tail(seq),
                          IF \E k \in 1..Len(acc) : acc[k] = Head(seq)
                          THEN acc ELSE Append(acc, Head(seq)))

FirstOccurrences(seq, acc) == Let2(seq, acc, FirstOccurrencesNext)

FilesOf(log) == [k \in 1..Len(log) |-> log[k].file]

\* the reads and the writes follow the order of first enqueue
InEnqueueOrder(order) ==
    /\ Len(readLog) <= Len(order)
    /\ FilesOf(readLog) = SubSeq(order, 1, Len(readLog))
    /\ FilesOf(writeLog) = SubSeq(order, 1, Len(writeLog))
    /\ Len(writeLog) <= Len(readLog)
    /\ Len(readLog) <= Len(writeLog) + 1
    /\ pc = "loop" => Len(readLog) = Len(writeLog)
    /\ pc \in {"loop", "imports", "done"} =>
            queue = SubSeq(order, Len(readLog) + 1, Len(order))
    /\ pc = "done" => FilesOf(writeLog) = order

\* C16: files are read and written one at a time in the order of their first
\* enqueue, entry points first; a file is written before the next one is read,
\* and on return the sequence of written files is the sequence of first enqueues.
C16_FifoOrder ==
    pc # "start" => Let1(FirstOccurrences(EnqueueCalls, <<>>), InEnqueueOrder)

C16_Witness ==
    /\ pc = "done"
    /\ options.entryPoints = <<"b.js", "a.js">>
    /\ Len(writeLog) >= 5
    /\ writeLog[2].file = "/r/s/a.js"
    /\ writeLog[3].file = "/r/s/u/c.js"
    /\ Len(EnqueueCalls) > Len(writeLog)

\* the path being processed, when there is one
Current == IF pc \in {"imports", "failed"} THEN {filePath} ELSE {}

Queued == {queue[k] : k \in 1..Len(queue)}

\* C17: every queued path is pending, no path is queued twice, the pending set
\* never loses a member, and it is the union of the paths queued, the path being
\* processed and the paths already processed.
C17_QueuePending ==
    /\ [](/\ Queued \subseteq in_queue
          /\ Cardinality(Queued) = Len(queue)
          /\ in_queue = Queued \cup Current \cup FilesWritten)
    /\ [][in_queue \subseteq in_queue']_vars

C17_Witness ==
    /\ pc = "imports"
    /\ i < 0
    /\ Len(queue) >= 2
    /\ Len(writeLog) >= 1
    /\ filePath \notin Queued
    /\ \E j, k \in 1..Len(importLog) :
        /\ j < k
        /\ importLog[j].target = importLog[k].target
        /\ importLog[k].target \in Queued

(***************************************************************************)
(* One invocation after another.                                           *)
(***************************************************************************)
SeedSet == {PathJoin(ESM_SRC, options.entryPoints[k]) : k \in 1..Len(options.entryPoints)}

\* C12: an invocation that follows another one on the same options and source
\* tree starts from the seeded pending set and queue and from the created set
\* holding the repository root only, and when it ends it has performed the same
\* sequence of reads and of writes as the one before.
C12_IndependentInvocations ==
    previous.ran =>
        /\ (pc = "loop" /\ readLog = <<>>) =>
                /\ in_queue = SeedSet
                /\ Queued = SeedSet
                /\ seenDir = {options.repoRoot}
        /\ pc \in {"done", "failed"} =>
                /\ readLog = previous.readLog
                /\ writeLog = previous.writeLog

(***************************************************************************)
(* The destination path mapper.                                            *)
(***************************************************************************)
\* the k-th configured pattern, in the canonical separator form
Pattern(k) == BackslashToSlash(options.destinationFolderSimplification[k].key)

\* every occurrence of the k-th pattern replaced by the replacement configured
\* with it, until none is left
RECURSIVE ConfiguredWhile(_, _)
ConfiguredIfPresent(p, k) ==
    IF IndexOf(p, Pattern(k)) >= 0
    THEN ConfiguredWhile(
            ReplaceFirst(p, Pattern(k), options.destinationFolderSimplification[k].value),
            k)
    ELSE p

ConfiguredWhile(p, k) == Let2(p, k, ConfiguredIfPresent)

RECURSIVE ConfiguredFrom(_, _)
ConfiguredFrom(p, k) ==
    IF k > Len(options.destinationFolderSimplification) THEN p
    ELSE ConfiguredFrom(ConfiguredWhile(p, k), k + 1)

\* the destination of p by the rule for files outside the source subdirectory
\* (line 104), before any simplification
RootRelative(p) == PathJoin(ESM_DEST, PathRelative(options.repoRoot, p))

\* C14: for a path the mapper handles by the repository-root rule, the
\* destination holds no occurrence of a configured pattern and is what replacing
\* each pattern by the replacement configured for it gives.
C14_SimplificationFixpoint ==
    \A c \in 1..Len(mapped) :
        IndexOf(mapped[c].path, ESM_SRC) # 0 =>
            /\ \A k \in 1..Len(options.destinationFolderSimplification) :
                    IndexOf(mapped[c].dest, Pattern(k)) < 0
            /\ mapped[c].dest =
                    PathNormalize(
                        ConfiguredFrom(BackslashToSlash(RootRelative(mapped[c].path)), 1))

\* p lies under the source subdirectory
UnderSource(p) == StartsWith(PathNormalize(p), ESM_SRC \o "/")

\* C15: the mapper gives the structure-preserving destination to exactly the
\* paths that lie under the source subdirectory, and the simplified
\* repository-root-relative destination to every other path, a path in a sibling
\* directory whose name starts with the source directory's name included.
C15_SourceTreeClassification ==
    \A c \in 1..Len(mapped) :
        mapped[c].dest =
            IF UnderSource(mapped[c].path)
            THEN PathJoin(ESM_DEST, PathRelative(ESM_SRC, mapped[c].path))
            ELSE PathNormalize(
                    applyDestinationFolderSimplifications(RootRelative(mapped[c].path)))

\* C20 as stated: two processed paths that name different files have different
\* destinations, wherever the files are and whatever the simplification mapping.
C20_DestinationInjectivity ==
    \A a, b \in 1..Len(mapped) :
        PathNormalize(mapped[a].path) # PathNormalize(mapped[b].path)
            => mapped[a].dest # mapped[b].dest

\* p is in normalised form and lies under the source subdirectory
NormalisedUnderSource(p) == p = PathNormalize(p) /\ StartsWith(p, ESM_SRC \o "/")

\* C20, amended: two distinct processed paths that are in normalised form and
\* lie under the source subdirectory have different destinations.
C20_SourceInjectivity ==
    \A a, b \in 1..Len(mapped) :
        /\ NormalisedUnderSource(mapped[a].path)
        /\ NormalisedUnderSource(mapped[b].path)
        /\ mapped[a].path # mapped[b].path
        => mapped[a].dest # mapped[b].dest

C20_Witness ==
    /\ Len(mapped) = 2
    /\ mapped[1].path = "/r/s/a.js"
    /\ mapped[2].path = "/r/s/u/a.js"
    /\ NormalisedUnderSource(mapped[1].path)
    /\ NormalisedUnderSource(mapped[2].path)
    /\ mapped[1].dest = "/r/d/a.js"
    /\ mapped[2].dest = "/r/d/u/a.js"

(***************************************************************************)
(* The walk of the third-party resolver.                                   *)
(***************************************************************************)
\* the k-th directory above a file, the nearest first: the text before its k-th
\* separator from the end ("" for the filesystem root)
DirectoryAbove(file, k) ==
    SubSeq(file, 1, Nth(Occurrences(file, "/"),
                        Cardinality(Occurrences(file, "/")) - k + 1))

\* the candidates are the directories above the importing file, nearest first
NearestFirst(w) ==
    /\ Len(w.result) <= Cardinality(Occurrences(w.sourceFilePath, "/"))
    /\ \A k \in 1..Len(w.result) :
            w.result[k] =
                DirectoryAbove(w.sourceFilePath, k) \o "/node_modules/" \o w.module

\* the repository root is the last directory tested
RootLast(w) ==
    /\ Len(w.result) > 0
    /\ w.result[Len(w.result)] = w.repoRoot \o "/node_modules/" \o w.module

\* the candidate taken is the first one that exists
FirstExistingTaken(w) ==
    \/ /\ w.selected = 0
       /\ \A k \in 1..Len(w.result) : ~Exists(w.result[k])
    \/ /\ w.selected \in 1..Len(w.result)
       /\ Exists(w.result[w.selected])
       /\ \A k \in 1..(w.selected - 1) : ~Exists(w.result[k])

ClosestAncestor(w) == NearestFirst(w) /\ RootLast(w) /\ FirstExistingTaken(w)

\* C18 as stated: for every importing file the candidates are the directories
\* from the importer's up to the repository root, nearest first and the root
\* last, and the first existing one is taken.
C18_ClosestAncestorAnywhere ==
    walk.at = "returned" => ClosestAncestor(walk)

\* C18, amended: the same for every importing file under the repository root.
C18_ClosestAncestor ==
    (walk.at = "returned" /\ StartsWith(walk.sourceFilePath, walk.repoRoot \o "/"))
        => ClosestAncestor(walk)

C18_Witness ==
    /\ walk.at = "returned"
    /\ walk.sourceFilePath = "/r/s/u/c.js"
    /\ walk.repoRoot = "/r"
    /\ Len(walk.result) = 3
    /\ walk.selected = 1
    /\ Exists(walk.result[3])
    /\ ~Exists(walk.result[2])

\* C19: the walk ends: its loop is never at a directory that is its own parent
\* with its condition true, from where every further turn leaves the directory
\* and the condition as they are and adds one more candidate.
C19_WalkTerminates ==
    walk.at = "while" =>
        ~(/\ PathDirname(walk.sourceDir) = walk.sourceDir
          /\ WalkContinues(walk.sourceDir, walk.repoRoot))
====
